---- MODULE Spec2Model ----
(***************************************************************************)
(* Room-state engine of hotarunohikaribottan.                              *)
(*                                                                         *)
(*   - the room store of backend/redis_store.go, with its in-memory        *)
(*     backend (MemRoom) and its shared backend (three Redis keys per      *)
(*     room), called by concurrent callers;                                *)
(*   - the trigger rule of Room.CheckTrigger / CheckTriggerStatus;         *)
(*   - the WebSocket handler of backend/main.go over backend/state.go.     *)
(***************************************************************************)
EXTENDS Integers, FiniteSets, Sequences, TLC

\* ------------------------------------------------------------------ bounds
NumPids == 2
NumConns == 3
MaxCount == 7
TickHours == 12
MaxLen == 9

\* participant ids
Pids == 1..NumPids
\* one room (the keys and the objects of different rooms are disjoint)
Rooms == {1}
\* two concurrent callers of the store (two server processes, or two handlers)
Procs == {1, 2}
\* the connections a server accepts, each used once
Conns == 1..NumConns
\* those of them whose handlers run side by side, in any interleaving
Busy == {1, 2}
\* the room ids a connection may name
RoomIds == {1, 2}

\* const roomTTL = 24 * time.Hour, counted in hours
roomTTL == 24

\* the tag of AES-GCM, in bytes
GcmTagSize == 16

\* the values of a byte that are tried
Bytes == {0, 1, 2}

VARIABLES
    started,    \* initRedis has run
    useRedis,   \* var useRedis bool
    rdb,        \* var rdb *redis.Client: "nil" or "client"
    memRooms,   \* memRooms sync.Map: room id -> MemRoom, created lazily
    partKey,    \* room:<mid>:participants, a Redis set (empty = no key)
    voteKey,    \* room:<mid>:votes, a Redis set (empty = no key)
    trigKey,    \* room:<mid>:triggered, "1" or "" (no key)
    ttl,        \* hours left of each key; 0 = the key has no expiry
    proc,       \* the callers of the store: position, arguments, locals
    ret,        \* the call that returned in the step just taken, if one did
    reported,   \* rooms for which a CheckTriggerStatus has returned true
    counted,    \* per room and id, how many Votes have returned true
    idle,       \* hours gone by since the last step of a store call
    faults,     \* the shared backend of this run can fail a command
    redisURL,   \* the REDIS_URL variable of the process ("" when unset)
    redisUp,    \* the shared backend answers the PING of startup
    twin,       \* side-by-side run: the result of the call in the in-memory build
    evTotal, evVotes, evAlready, evPc, evRoom, evStore,  \* the trigger rule on its own
    evHttp,     \* handleGetState: the triggered it reports, the flag it leaves
    rooms,      \* state.go: rooms.m, room id -> Room, created lazily
    clients,    \* main.go: the clients map, the registered connections
    conn,       \* per connection: its handler's position and locals
    connOpen,   \* per connection: the websocket is open
    recvTrig,   \* per connection: the 'triggered' payloads written to it
    castTrig,   \* per connection: those of them written by broadcastRoom
    fatal,      \* the runtime found the clients map accessed concurrently, and
                \* has stopped the process
    wire,       \* the writes to connections made by the step just taken
    bus,        \* pubsub.go: the events published and not yet received here
    heard,      \* the inbound event ReadJSON returned in the step just taken
    lazy,       \* getRoom / getMemRoom step by step: the tables as references to
                \* room objects, the lock of rooms, the callers' positions
    env,        \* auth.go: the DEV_BYPASS variable of the process
    req,        \* the request being served
    hs,         \* its serving: position, the zoomCtx attached, the status
    vz          \* VerifyZoomContext: position and locals

storeVars == <<started, useRedis, rdb, memRooms, partKey, voteKey, trigKey, ttl,
               proc, ret, reported, counted, idle, faults, redisURL, redisUp, twin>>
evalVars == <<evTotal, evVotes, evAlready, evPc, evRoom, evStore, evHttp>>
handlerVars == <<rooms, clients, conn, connOpen, recvTrig, castTrig, fatal, wire, bus, heard>>
connVars == <<handlerVars, lazy>>
authVars == <<env, req, hs, vz>>

\* --------------------------------------------------------- the trigger rule

\* the threshold rounded down instead of up
Threshold_floor(total) == total \div 2

\* int(math.Ceil(float64(total) / 2.0))
Threshold(total) ==
    IF total % 2 = 0 THEN total \div 2 ELSE (total \div 2) + 1

\* Room.CheckTrigger (state.go): the value returned for the counts it reads
RoomCheckTriggerValue(total, votes, isTriggered) ==
    IF isTriggered THEN TRUE
    ELSE IF total = 0 THEN FALSE
    ELSE votes >= Threshold(total) /\ votes > 0

\* the flag set as soon as the room has a participant
StoreTriggerValue_eager(total, votes, triggered) ==
    IF triggered THEN TRUE ELSE total > 0

\* CheckTriggerStatus (redis_store.go), both paths: the flag after the evaluation
StoreTriggerValue(total, votes, triggered) ==
    IF triggered THEN TRUE
    ELSE IF total > 0 THEN (votes >= Threshold(total) /\ votes > 0)
    ELSE triggered

\* -------------------------------------------------- the room store: state

KeyKinds == {"participants", "votes", "triggered"}

\* &MemRoom{Participants: make(map), Votes: make(map), Triggered: false}
NewMemRoom == [Participants |-> {}, Votes |-> {}, Triggered |-> FALSE]

\* memRooms.LoadOrStore(mid, &MemRoom{...}): the map after the call
getMemRoom(m, mid) ==
    IF mid \in DOMAIN m THEN m ELSE (mid :> NewMemRoom) @@ m

\* a room of the in-memory backend, as a caller can observe it
MemView(m, mid) ==
    IF mid \in DOMAIN m THEN m[mid] ELSE NewMemRoom

\* the room as the selected backend holds it: the two sets and the flag
ViewOf(redis, m, pk, vk, tk, mid) ==
    IF redis
    THEN [Participants |-> pk[mid], Votes |-> vk[mid], Triggered |-> (tk[mid] = "1")]
    ELSE [Participants |-> MemView(m, mid).Participants,
          Votes |-> MemView(m, mid).Votes,
          Triggered |-> MemView(m, mid).Triggered]

View(mid) == ViewOf(useRedis, memRooms, partKey, voteKey, trigKey, mid)

ViewNext(mid) == ViewOf(useRedis', memRooms', partKey', voteKey', trigKey', mid)

\* a caller at rest, before its first call. Beside the position, the arguments,
\* the locals and the result (val, err), a call notes: after, it started after
\* a report of triggered = true for the room; had, at its start uid was in the
\* participant set (of a Vote: a Vote of uid had been counted); dirty, a step of
\* it changed the sets or the flag of the room; timed, a step of it changed an
\* expiry of the room; fault, the backend failed a command of an
\* AddParticipant or a RemoveParticipant, the GET or the EXPIRE of a Vote, or
\* the SET of a CheckTriggerStatus. Of a CheckTriggerStatus, had is: at its start the room
\* had been left alone for roomTTL
IdleProc ==
    [pc |-> "idle", op |-> "none", mid |-> 1, uid |-> 1, total |-> 0, votes |-> 0,
     added |-> 0, val |-> FALSE, err |-> FALSE,
     after |-> FALSE, had |-> FALSE, dirty |-> FALSE, timed |-> FALSE,
     fault |-> FALSE]

\* a caller entering operation op on (mid, uid)
Enter(op, mid, uid) ==
    [IdleProc EXCEPT !.op = op, !.mid = mid, !.uid = uid,
                     !.after = (op \in {"Vote", "CheckTriggerStatus"} /\ mid \in reported),
                     !.had = IF op = "Vote" THEN counted[mid][uid] > 0
                             ELSE IF op = "CheckTriggerStatus" THEN idle >= roomTTL
                             ELSE uid \in View(mid).Participants]

\* ----------------------------------------------- Redis commands on one key

\* a command sent to the shared backend is carried out, or fails
Replies == IF faults THEN BOOLEAN ELSE {TRUE}

\* SADD key member: the set after the command
SAdd(set, member) == set \cup {member}

\* a reply that does not tell a new member from one already in the set
SAddReply_always(set, member) == 1

\* SADD key member: the reply, the number of members newly added
SAddReply(set, member) == IF member \in set THEN 0 ELSE 1

\* the key deleted instead of the member removed
SRem_del(set, member) == {}

\* a count that tells only an empty set from one that is not
SCard_exists(set) == IF set = {} THEN 0 ELSE 1

\* SCARD key: the reply
SCard(set) == Cardinality(set)

\* SREM key member: the set after the command
SRem(set, member) == set \ {member}

\* the expiry of a set key after a command left it holding `set`
\* (a key whose set is empty does not exist, and has no expiry)
KeepTTL(set, t) == IF set = {} THEN 0 ELSE t

\* an EXPIRE that is never sent
Expire_skipped(exists, t) == t

\* EXPIRE key roomTTL: no effect on a key that does not exist
Expire(exists, t) == IF exists THEN roomTTL ELSE t

\* ------------------------------------------- the in-memory backend (MemRoom)

\* the entry of uid flipped instead of set
MemAddParticipant_toggle(rm, uid) ==
    [rm EXCEPT !.Participants = IF uid \in @ THEN @ \ {uid} ELSE @ \cup {uid}]

\* rm.Participants[uid] = true
MemAddParticipant(rm, uid) == [rm EXCEPT !.Participants = @ \cup {uid}]

\* a removal that takes the vote of uid with it
MemRemoveParticipant_retract(rm, uid) ==
    [rm EXCEPT !.Participants = @ \ {uid}, !.Votes = @ \ {uid}]

\* delete(rm.Participants, uid)
MemRemoveParticipant(rm, uid) == [rm EXCEPT !.Participants = @ \ {uid}]

\* a Vote that does not look at the flag
MemVoteCounted_open(rm, uid) == uid \notin rm.Votes

\* Vote, in-memory path: the value returned
MemVoteCounted(rm, uid) ==
    IF rm.Triggered THEN FALSE
    ELSE IF uid \in rm.Votes THEN FALSE
    ELSE TRUE

\* Vote, in-memory path: the room after the call
MemVote(rm, uid) ==
    IF MemVoteCounted(rm, uid) THEN [rm EXCEPT !.Votes = @ \cup {uid}] ELSE rm

\* the flag recomputed from the counts at every evaluation
MemCheckTrigger_recomputed(rm) ==
    [rm EXCEPT !.Triggered =
        StoreTriggerValue(Cardinality(rm.Participants), Cardinality(rm.Votes), FALSE)]

\* CheckTriggerStatus, in-memory path: the room after the call
MemCheckTrigger(rm) ==
    [rm EXCEPT !.Triggered =
        StoreTriggerValue(Cardinality(rm.Participants), Cardinality(rm.Votes), @)]

\* ------------------------------------------------ the room store: actions

\* a step of caller p that leaves its call in `rec`; a step that returns from
\* the call shows the call in ret
Move(p, rec) ==
    LET r == [rec EXCEPT !.dirty = @ \/ (ViewNext(rec.mid) # View(rec.mid)),
                         !.timed = @ \/ (ttl'[rec.mid] # ttl[rec.mid])] IN
       /\ idle' = 0
       /\ UNCHANGED <<faults, redisURL, redisUp, twin>>
       /\ IF r.pc = "idle"
          THEN proc' = [proc EXCEPT ![p] = IdleProc] /\ ret' = r
          ELSE proc' = [proc EXCEPT ![p] = r] /\ ret' = IdleProc

\* the values of REDIS_URL that are tried: unset, not a Redis URL, a Redis URL
URLs == {"", "http://h", "redis://h"}

\* redis.ParseURL taking any URL
ParseURL_any(url) == TRUE

\* redis.ParseURL(redisURL) returns no error
ParseURL(url) == url = "redis://h"

\* initRedis: the backend is chosen once, at startup
initRedis ==
    /\ ~started
    /\ IF redisURL = "" THEN useRedis' = FALSE /\ rdb' = rdb
       ELSE IF ~ParseURL(redisURL) THEN useRedis' = FALSE /\ rdb' = rdb
       ELSE IF ~redisUp THEN useRedis' = FALSE /\ rdb' = "nil"
       ELSE useRedis' = TRUE /\ rdb' = "client"
    /\ started' = TRUE
    /\ ret' = IdleProc
    /\ UNCHANGED <<memRooms, partKey, voteKey, trigKey, ttl, proc, reported, counted,
                   idle, faults, redisURL, redisUp, twin>>

\* AddParticipant, in-memory path (under rm.mu)
AddParticipant_mem(p, mid, uid) ==
    /\ started /\ ~useRedis /\ proc[p].pc = "idle"
    /\ memRooms' = [getMemRoom(memRooms, mid) EXCEPT
                       ![mid] = MemAddParticipant(@, uid)]
    /\ UNCHANGED <<started, useRedis, rdb, partKey, voteKey, trigKey, ttl,
                   reported, counted>>
    /\ Move(p, Enter("AddParticipant", mid, uid))

\* AddParticipant, shared path: the pipeline fails as a whole, or its SADD runs
AddParticipant_sadd(p, mid, uid) ==
    /\ started /\ useRedis /\ proc[p].pc = "idle"
    /\ UNCHANGED <<started, useRedis, rdb, memRooms, voteKey, trigKey, ttl,
                   reported, counted>>
    /\ \E ok \in Replies :
          IF ok
          THEN /\ partKey' = [partKey EXCEPT ![mid] = SAdd(@, uid)]
               /\ Move(p, [Enter("AddParticipant", mid, uid) EXCEPT !.pc = "add_expire"])
          ELSE /\ partKey' = partKey
               /\ Move(p, [Enter("AddParticipant", mid, uid) EXCEPT !.err = TRUE, !.fault = TRUE])

\* AddParticipant, shared path: the pipeline's EXPIRE; Exec returns the error
\* of the command that failed, if one did
AddParticipant_expire(p) ==
    /\ proc[p].pc = "add_expire"
    /\ LET mid == proc[p].mid IN
          /\ UNCHANGED <<started, useRedis, rdb, memRooms, partKey, voteKey, trigKey,
                         reported, counted>>
          /\ \E done \in Replies :
                /\ ttl' = IF done
                          THEN [ttl EXCEPT ![mid]["participants"] =
                                              Expire(partKey[mid] # {}, @)]
                          ELSE ttl
                /\ Move(p, [proc[p] EXCEPT !.pc = "idle", !.err = ~done,
                                           !.fault = ~done])

\* RemoveParticipant, in-memory path (under rm.mu)
RemoveParticipant_mem(p, mid, uid) ==
    /\ started /\ ~useRedis /\ proc[p].pc = "idle"
    /\ memRooms' = [getMemRoom(memRooms, mid) EXCEPT
                       ![mid] = MemRemoveParticipant(@, uid)]
    /\ UNCHANGED <<started, useRedis, rdb, partKey, voteKey, trigKey, ttl,
                   reported, counted>>
    /\ Move(p, Enter("RemoveParticipant", mid, uid))

\* RemoveParticipant, shared path: one SREM, its error returned
RemoveParticipant_srem(p, mid, uid) ==
    /\ started /\ useRedis /\ proc[p].pc = "idle"
    /\ UNCHANGED <<started, useRedis, rdb, memRooms, voteKey, trigKey,
                   reported, counted>>
    /\ \E ok \in Replies :
          IF ok
          THEN /\ partKey' = [partKey EXCEPT ![mid] = SRem(@, uid)]
               /\ ttl' = [ttl EXCEPT ![mid]["participants"] =
                                        KeepTTL(SRem(partKey[mid], uid), @)]
               /\ Move(p, Enter("RemoveParticipant", mid, uid))
          ELSE /\ partKey' = partKey /\ ttl' = ttl
               /\ Move(p, [Enter("RemoveParticipant", mid, uid) EXCEPT !.err = TRUE, !.fault = TRUE])

\* Vote, in-memory path (under rm.mu)
Vote_mem(p, mid, uid) ==
    /\ started /\ ~useRedis /\ proc[p].pc = "idle"
    /\ LET m == getMemRoom(memRooms, mid)
           ok == MemVoteCounted(m[mid], uid) IN
          /\ memRooms' = [m EXCEPT ![mid] = MemVote(@, uid)]
          /\ counted' = IF ok THEN [counted EXCEPT ![mid][uid] = @ + 1] ELSE counted
          /\ UNCHANGED <<started, useRedis, rdb, partKey, voteKey, trigKey, ttl, reported>>
          /\ Move(p, [Enter("Vote", mid, uid) EXCEPT !.val = ok,
                                                     !.added = IF ok THEN 1 ELSE 0])

\* Vote, shared path: GET of the triggered marker. Only a reply of "1" with no
\* error returns false; a missing key (redis.Nil) or a failed read goes on
Vote_get(p, mid, uid) ==
    /\ started /\ useRedis /\ proc[p].pc = "idle"
    /\ UNCHANGED <<started, useRedis, rdb, memRooms, partKey, voteKey, trigKey, ttl,
                   reported, counted>>
    /\ \E ok \in Replies :
          IF ok /\ trigKey[mid] = "1"
          THEN Move(p, Enter("Vote", mid, uid))
          ELSE Move(p, [Enter("Vote", mid, uid) EXCEPT !.pc = "vote_sadd",
                                                        !.fault = ~ok])

\* Vote, shared path: SADD on the voter set; its error returns (false, err)
Vote_sadd(p) ==
    /\ proc[p].pc = "vote_sadd"
    /\ UNCHANGED <<started, useRedis, rdb, memRooms, partKey, trigKey, ttl,
                   reported, counted>>
    /\ LET mid == proc[p].mid
           uid == proc[p].uid IN
          \E ok \in Replies :
             IF ok
             THEN /\ voteKey' = [voteKey EXCEPT ![mid] = SAdd(@, uid)]
                  /\ Move(p, [proc[p] EXCEPT !.pc = "vote_expire",
                                             !.added = SAddReply(voteKey[mid], uid)])
             ELSE /\ voteKey' = voteKey
                  /\ Move(p, [proc[p] EXCEPT !.pc = "idle", !.err = TRUE])

\* Vote, shared path: EXPIRE on the voter set (its error is dropped), then
\* return added > 0
Vote_expire(p) ==
    /\ proc[p].pc = "vote_expire"
    /\ LET mid == proc[p].mid
           uid == proc[p].uid
           ok == proc[p].added > 0 IN
          /\ counted' = IF ok THEN [counted EXCEPT ![mid][uid] = @ + 1] ELSE counted
          /\ UNCHANGED <<started, useRedis, rdb, memRooms, partKey, voteKey, trigKey,
                         reported>>
          /\ \E done \in Replies :
                /\ ttl' = IF done
                          THEN [ttl EXCEPT ![mid]["votes"] = Expire(voteKey[mid] # {}, @)]
                          ELSE ttl
                /\ Move(p, [proc[p] EXCEPT !.pc = "idle", !.val = ok,
                                           !.fault = @ \/ ~done])

\* CheckTriggerStatus, in-memory path (under rm.mu)
CheckTriggerStatus_mem(p, mid) ==
    /\ started /\ ~useRedis /\ proc[p].pc = "idle"
    /\ LET m == getMemRoom(memRooms, mid)
           rm == MemCheckTrigger(m[mid]) IN
          /\ memRooms' = [m EXCEPT ![mid] = rm]
          /\ reported' = IF rm.Triggered THEN reported \cup {mid} ELSE reported
          /\ UNCHANGED <<started, useRedis, rdb, partKey, voteKey, trigKey, ttl, counted>>
          /\ Move(p, [Enter("CheckTriggerStatus", mid, 1) EXCEPT
                         !.total = Cardinality(rm.Participants),
                         !.votes = Cardinality(rm.Votes),
                         !.val = rm.Triggered])

\* CheckTriggerStatus, shared path: the batched read (SCARD, SCARD, GET in one
\* MULTI/EXEC). Its error is dropped: a failed read yields 0, 0 and ""
CheckTriggerStatus_read(p, mid) ==
    /\ started /\ useRedis /\ proc[p].pc = "idle"
    /\ UNCHANGED <<started, useRedis, rdb, memRooms, partKey, voteKey, trigKey, ttl,
                   counted>>
    /\ \E ok \in Replies :
          LET total == IF ok THEN SCard(partKey[mid]) ELSE 0
              votes == IF ok THEN SCard(voteKey[mid]) ELSE 0
              triggered == ok /\ trigKey[mid] = "1"
              rec == [Enter("CheckTriggerStatus", mid, 1) EXCEPT
                         !.total = total, !.votes = votes] IN
             IF triggered
             THEN /\ reported' = reported \cup {mid}
                  /\ Move(p, [rec EXCEPT !.val = TRUE])
             ELSE IF StoreTriggerValue(total, votes, triggered)
                  THEN /\ reported' = reported
                       /\ Move(p, [rec EXCEPT !.pc = "cts_set"])
                  ELSE /\ reported' = reported
                       /\ Move(p, rec)

\* CheckTriggerStatus, shared path: rdb.Set(trigKey, "1", roomTTL), its error
\* dropped, then return triggered = true
CheckTriggerStatus_set(p) ==
    /\ proc[p].pc = "cts_set"
    /\ LET mid == proc[p].mid IN
          /\ reported' = reported \cup {mid}
          /\ UNCHANGED <<started, useRedis, rdb, memRooms, partKey, voteKey, counted>>
          /\ \E ok \in Replies :
                /\ IF ok
                   THEN /\ trigKey' = [trigKey EXCEPT ![mid] = "1"]
                        /\ ttl' = [ttl EXCEPT ![mid]["triggered"] = roomTTL]
                   ELSE /\ trigKey' = trigKey /\ ttl' = ttl
                /\ Move(p, [proc[p] EXCEPT !.pc = "idle", !.val = TRUE, !.fault = ~ok])

\* a key of the room exists
KeyExists(mid, k) ==
    IF k = "participants" THEN partKey[mid] # {}
    ELSE IF k = "votes" THEN voteKey[mid] # {}
    ELSE trigKey[mid] # ""

\* the passing of TickHours hours: every expiry runs down, and a key whose
\* expiry has run out is gone (the count of the Votes counted is of the voter
\* set that exists, and starts again with it)
Elapse(t) == IF t = 0 THEN 0 ELSE IF t > TickHours THEN t - TickHours ELSE 0
Expired(t) == t > 0 /\ t <= TickHours

Tick ==
    /\ started /\ useRedis
    /\ idle < roomTTL \/ \E mid \in Rooms, k \in KeyKinds : ttl[mid][k] > 0
    /\ partKey' = [mid \in Rooms |->
                     IF Expired(ttl[mid]["participants"]) THEN {} ELSE partKey[mid]]
    /\ voteKey' = [mid \in Rooms |->
                     IF Expired(ttl[mid]["votes"]) THEN {} ELSE voteKey[mid]]
    /\ trigKey' = [mid \in Rooms |->
                     IF Expired(ttl[mid]["triggered"]) THEN "" ELSE trigKey[mid]]
    /\ ttl' = [mid \in Rooms |-> [k \in KeyKinds |-> Elapse(ttl[mid][k])]]
    /\ counted' = [mid \in Rooms |->
                     IF Expired(ttl[mid]["votes"])
                     THEN [uid \in Pids |-> 0] ELSE counted[mid]]
    /\ idle' = IF idle + TickHours >= roomTTL THEN roomTTL ELSE idle + TickHours
    /\ ret' = IdleProc
    /\ UNCHANGED <<started, useRedis, rdb, memRooms, proc, reported, faults,
                   redisURL, redisUp, twin>>

\* the store before startup
StoreStart ==
    /\ started = FALSE
    /\ useRedis = FALSE
    /\ rdb = "nil"
    /\ memRooms = <<>>
    /\ partKey = [mid \in Rooms |-> {}]
    /\ voteKey = [mid \in Rooms |-> {}]
    /\ trigKey = [mid \in Rooms |-> ""]
    /\ ttl = [mid \in Rooms |-> [k \in KeyKinds |-> 0]]
    /\ proc = [p \in Procs |-> IdleProc]
    /\ ret = IdleProc
    /\ reported = {}
    /\ counted = [mid \in Rooms |-> [uid \in Pids |-> 0]]
    /\ idle = 0
    /\ twin = IdleProc

\* a process started without REDIS_URL
StoreInit == StoreStart /\ faults = TRUE /\ redisURL = "" /\ redisUp = FALSE

\* a process started without REDIS_URL, or with the URL of a backend that is up
BootEither == redisURL \in {"", "redis://h"} /\ redisUp = TRUE

\* handleGetState has rendered nothing
NoState == [triggered |-> FALSE, flag |-> FALSE]

EvalIdle ==
    /\ evTotal = 0 /\ evVotes = 0 /\ evAlready = FALSE
    /\ evPc = "off" /\ evRoom = FALSE /\ evStore = FALSE /\ evHttp = NoState

\* the steps of caller p
StoreStep(p) ==
    \/ \E mid \in Rooms, uid \in Pids :
          \/ AddParticipant_mem(p, mid, uid)
          \/ AddParticipant_sadd(p, mid, uid)
          \/ RemoveParticipant_mem(p, mid, uid)
          \/ RemoveParticipant_srem(p, mid, uid)
          \/ Vote_mem(p, mid, uid)
          \/ Vote_get(p, mid, uid)
    \/ \E mid \in Rooms :
          \/ CheckTriggerStatus_mem(p, mid)
          \/ CheckTriggerStatus_read(p, mid)
    \/ AddParticipant_expire(p)
    \/ Vote_sadd(p)
    \/ Vote_expire(p)
    \/ CheckTriggerStatus_set(p)

\* the caller goes on with the result of its call, which leaves ret; the
\* other steps are taken with no result waiting
Resume ==
    /\ ret.op # "none"
    /\ ret' = IdleProc
    /\ UNCHANGED <<started, useRedis, rdb, memRooms, partKey, voteKey, trigKey, ttl,
                   proc, reported, counted, idle, faults, redisURL, redisUp, twin>>

StoreNext ==
    \/ Resume
    \/ ret.op = "none" /\ (initRedis \/ \E p \in Procs : StoreStep(p))

\* ------------------------------------------- the trigger rule on its own

\* handleGetState: fill = float64(votes) / float64(participants) * 100 is at
\* least 100, for counts whose quotient a float64 holds
Full(participants, votes) ==
    IF participants > 0 THEN votes * 100 >= 100 * participants ELSE FALSE

\* handleGetState, for the counts getParticipantCount and getVoteCount return
\* and the flag checkTrigger returns: the triggered it renders, and the flag
\* stored once it has returned (setTrigger is called when fill >= 100 finds
\* the flag unset)
handleGetState(participants, votes, already) ==
    [triggered |-> Full(participants, votes),
     flag |-> IF Full(participants, votes) THEN TRUE ELSE already]

\* the rule applied to counts and a flag drawn from their ranges
Evaluate ==
    /\ evPc = "in"
    /\ evRoom' = RoomCheckTriggerValue(evTotal, evVotes, evAlready)
    /\ evStore' = StoreTriggerValue(evTotal, evVotes, evAlready)
    /\ evHttp' = handleGetState(evTotal, evVotes, evAlready)
    /\ evPc' = "out"
    /\ UNCHANGED <<evTotal, evVotes, evAlready>>

EvalInit ==
    /\ evTotal \in 0..MaxCount
    /\ evVotes \in 0..MaxCount
    /\ evAlready \in BOOLEAN
    /\ evPc = "in" /\ evRoom = FALSE /\ evStore = FALSE /\ evHttp = NoState

\* ------------------------------- state.go: Room, the in-process room table

\* NewRoom()
NewRoom == [Participants |-> {}, VotedUsers |-> {}, IsTriggered |-> FALSE]

\* getRoom(id): the table after the call (the room is created on first use,
\* under rooms.Lock with the lookup repeated)
getRoom(m, id) == IF id \in DOMAIN m THEN m ELSE (id :> NewRoom) @@ m

\* r.Participants[pid] = true
RoomAddParticipant(r, pid) == [r EXCEPT !.Participants = @ \cup {pid}]

\* delete(r.Participants, pid)
RoomRemoveParticipant(r, pid) == [r EXCEPT !.Participants = @ \ {pid}]

\* Room.Vote: the value returned
RoomVoteCounted(r, pid) ==
    IF r.IsTriggered THEN FALSE
    ELSE IF pid \in r.VotedUsers THEN FALSE
    ELSE TRUE

\* Room.Vote: the room after the call
RoomVote(r, pid) ==
    IF RoomVoteCounted(r, pid) THEN [r EXCEPT !.VotedUsers = @ \cup {pid}] ELSE r

\* Room.CheckTrigger: the value returned
RoomCheckTriggerReturn(r) ==
    RoomCheckTriggerValue(Cardinality(r.Participants), Cardinality(r.VotedUsers),
                          r.IsTriggered)

\* Room.CheckTrigger: the room after the call
RoomCheckTrigger(r) == [r EXCEPT !.IsTriggered = RoomCheckTriggerReturn(r)]

\* the payloads: GenerateTriggeredHTML(), and Room.GenerateGaugeHTML(), which
\* renders the counts of GetState() or is "" for a triggered room
NoHtml == [kind |-> "none", total |-> 0, votes |-> 0]
GenerateTriggeredHTML == [kind |-> "triggered", total |-> 0, votes |-> 0]
GenerateGaugeHTML(r) ==
    IF r.IsTriggered
    THEN [kind |-> "empty", total |-> 0, votes |-> 0]
    ELSE [kind |-> "update", total |-> Cardinality(r.Participants),
          votes |-> Cardinality(r.VotedUsers)]

\* ------------------- state.go, redis_store.go: the lazy creation of rooms

MaxCalls == 2

\* no room object
NoRoom == 0

NoCall == [pc |-> "idle", fn |-> "none", id |-> 1, r |-> NoRoom, ok |-> FALSE,
           missed |-> FALSE, calls |-> 0]

LazyIdle ==
    [m |-> [id \in RoomIds |-> NoRoom], store |-> [id \in RoomIds |-> NoRoom],
     heap |-> 0, made |-> 0, readers |-> {}, writer |-> 0,
     g |-> [p \in Procs |-> NoCall]]

\* r, ok := rooms.m[id]
Lookup_absent(m, id) == NoRoom
Lookup(m, id) == m[id]

\* caller p calls fn of id
LazyCall(p, fn, id) ==
    /\ lazy.g[p].pc = "idle"
    /\ lazy.g[p].calls < MaxCalls
    /\ lazy' = [lazy EXCEPT !.g[p] = [pc |-> IF fn = "getRoom" THEN "RLock" ELSE "alloc",
                                     fn |-> fn, id |-> id, r |-> NoRoom, ok |-> FALSE,
                                     missed |-> FALSE, calls |-> @.calls + 1]]

\* getRoom: rooms.RLock()
getRoom_RLock(p) ==
    /\ lazy.g[p].pc = "RLock"
    /\ lazy.writer = 0
    /\ lazy' = [lazy EXCEPT !.readers = @ \cup {p}, !.g[p].pc = "load"]

\* getRoom: r, ok := rooms.m[id]
getRoom_load(p) ==
    /\ lazy.g[p].pc = "load"
    /\ LET r == Lookup(lazy.m, lazy.g[p].id) IN
          lazy' = [lazy EXCEPT !.g[p].r = r, !.g[p].ok = (r # NoRoom),
                               !.g[p].missed = (r = NoRoom), !.g[p].pc = "RUnlock"]

\* getRoom: rooms.RUnlock(); if !ok
getRoom_RUnlock(p) ==
    /\ lazy.g[p].pc = "RUnlock"
    /\ lazy' = [lazy EXCEPT !.readers = @ \ {p},
                            !.g[p].pc = IF lazy.g[p].ok THEN "return" ELSE "Lock"]

\* getRoom: rooms.Lock()
getRoom_Lock(p) ==
    /\ lazy.g[p].pc = "Lock"
    /\ lazy.writer = 0 /\ lazy.readers = {}
    /\ lazy' = [lazy EXCEPT !.writer = p, !.g[p].pc = "reload"]

\* getRoom: r, ok = rooms.m[id], under the lock; if !ok
getRoom_reload(p) ==
    /\ lazy.g[p].pc = "reload"
    /\ LET r == Lookup(lazy.m, lazy.g[p].id) IN
          lazy' = [lazy EXCEPT !.g[p].r = r, !.g[p].ok = (r # NoRoom),
                               !.g[p].pc = IF r # NoRoom THEN "Unlock" ELSE "new"]

\* getRoom: r = NewRoom(); rooms.m[id] = r
getRoom_new(p) ==
    /\ lazy.g[p].pc = "new"
    /\ lazy' = [lazy EXCEPT !.heap = @ + 1, !.made = @ + 1,
                            !.m[lazy.g[p].id] = lazy.heap + 1,
                            !.g[p].r = lazy.heap + 1, !.g[p].pc = "Unlock"]

\* getRoom: rooms.Unlock()
getRoom_Unlock(p) ==
    /\ lazy.g[p].pc = "Unlock"
    /\ lazy' = [lazy EXCEPT !.writer = 0, !.g[p].pc = "return"]

\* getMemRoom: the argument &MemRoom{...} of LoadOrStore is built
getMemRoom_alloc(p) ==
    /\ lazy.g[p].pc = "alloc"
    /\ lazy' = [lazy EXCEPT !.heap = @ + 1, !.g[p].r = lazy.heap + 1,
                            !.g[p].pc = "LoadOrStore"]

\* getMemRoom: memRooms.LoadOrStore(mid, ...), one step of the sync.Map: the
\* value held is returned, or the argument is stored and returned
getMemRoom_LoadOrStore(p) ==
    /\ lazy.g[p].pc = "LoadOrStore"
    /\ LET held == Lookup(lazy.store, lazy.g[p].id) IN
          lazy' = IF held # NoRoom
                  THEN [lazy EXCEPT !.g[p].r = held, !.g[p].ok = TRUE, !.g[p].pc = "return"]
                  ELSE [lazy EXCEPT !.store[lazy.g[p].id] = lazy.g[p].r,
                                    !.g[p].missed = TRUE, !.g[p].pc = "return"]

\* return r: the caller goes on with the room it was given
LazyReturn(p) ==
    /\ lazy.g[p].pc = "return"
    /\ lazy' = [lazy EXCEPT !.g[p].pc = "idle"]

LazyNext ==
    /\ \E p \in Procs :
          \/ \E id \in RoomIds, fn \in {"getRoom", "getMemRoom"} : LazyCall(p, fn, id)
          \/ getRoom_RLock(p)
          \/ getRoom_load(p)
          \/ getRoom_RUnlock(p)
          \/ getRoom_Lock(p)
          \/ getRoom_reload(p)
          \/ getRoom_new(p)
          \/ getRoom_Unlock(p)
          \/ getMemRoom_alloc(p)
          \/ getMemRoom_LoadOrStore(p)
          \/ LazyReturn(p)
    /\ UNCHANGED handlerVars

\* ------------------------------------ main.go: one handler per connection

NewConn ==
    [pc |-> "new", roomID |-> 1, pid |-> 1, html |-> NoHtml, todo |-> {}, back |-> "none"]

\* the handler of c calls broadcastRoom(roomID, html), to go on at `back`
\* afterwards; the range over the clients map starts from the clients held now
CallBroadcast(c, html, back) ==
    conn' = [conn EXCEPT ![c].pc = "broadcast", ![c].html = html,
                         ![c].todo = clients, ![c].back = back]

\* the clients broadcastRoom of c has still to write to: those its range has
\* yet to produce, that are of the room
Pending(c) ==
    {d \in conn[c].todo : conn[d].roomID = conn[c].roomID}

\* the handlers other than c whose broadcastRoom is ranging over the map
Ranging(c) == {b \in Conns \ {c} : conn[b].pc = "broadcast"}

\* the map is written while the handlers of `others` range over it, with no
\* lock: the runtime may find it out and stop the process
MapRace(others) == fatal' \in (IF others = {} THEN {FALSE} ELSE BOOLEAN)

\* the todo of the handlers after d is deleted from the map: the ranges in
\* `keep` still produce it (the delete was not under a lock of theirs)
Dropped(cn, d, keep) ==
    [b \in Conns |-> IF b \in keep THEN cn[b] ELSE [cn[b] EXCEPT !.todo = @ \ {d}]]

\* a payload of `kind`, rendered for `room`, is written to connection d
Write(d, room, kind) == [to |-> d, room |-> room, kind |-> kind]

\* handleConnections: the upgrade, and clients[client] = true
Connect(c, roomID, pid) ==
    /\ conn[c].pc = "new"
    /\ \E seen \in SUBSET Ranging(c) :
          conn' = [b \in Conns |->
                     IF b = c
                     THEN [conn[c] EXCEPT !.pc = "join", !.roomID = roomID, !.pid = pid]
                     ELSE IF b \in seen THEN [conn[b] EXCEPT !.todo = @ \cup {c}]
                     ELSE conn[b]]
    /\ clients' = clients \cup {c}
    /\ connOpen' = [connOpen EXCEPT ![c] = TRUE]
    /\ MapRace(Ranging(c))
    /\ UNCHANGED <<rooms, recvTrig, castTrig>>
    /\ wire' = {}

\* room := getRoom(roomID); room.AddParticipant(pid)
Join(c) ==
    /\ conn[c].pc = "join"
    /\ rooms' = [getRoom(rooms, conn[c].roomID) EXCEPT
                    ![conn[c].roomID] = RoomAddParticipant(@, conn[c].pid)]
    /\ conn' = [conn EXCEPT ![c].pc = "joinCheck"]
    /\ UNCHANGED <<clients, connOpen, recvTrig, castTrig, fatal>>
    /\ wire' = {}

\* if !room.IsTriggered, on join
JoinCheck(c) ==
    /\ conn[c].pc = "joinCheck"
    /\ conn' = [conn EXCEPT ![c].pc =
                   IF rooms[conn[c].roomID].IsTriggered THEN "joinSend" ELSE "joinGauge"]
    /\ UNCHANGED <<rooms, clients, connOpen, recvTrig, castTrig, fatal>>
    /\ wire' = {}

\* broadcastRoom(roomID, room.GenerateGaugeHTML()): the render, on join, after a
\* counted vote that did not trigger, and on disconnect
Gauge(c) ==
    /\ conn[c].pc \in {"joinGauge", "voteGauge", "leaveGauge"}
    /\ CallBroadcast(c, GenerateGaugeHTML(rooms[conn[c].roomID]),
                     IF conn[c].pc = "leaveGauge" THEN "deferRemove" ELSE "loop")
    /\ UNCHANGED <<rooms, clients, connOpen, recvTrig, castTrig, fatal>>
    /\ wire' = {}

\* conn.WriteMessage(GenerateTriggeredHTML()) to the joining connection itself
JoinSend(c) ==
    /\ conn[c].pc = "joinSend"
    /\ recvTrig' = IF connOpen[c] THEN [recvTrig EXCEPT ![c] = @ + 1] ELSE recvTrig
    /\ conn' = [conn EXCEPT ![c].pc = "loop"]
    /\ UNCHANGED <<rooms, clients, connOpen, castTrig, fatal>>
    /\ wire' = IF connOpen[c] THEN {Write(c, conn[c].roomID, "triggered")} ELSE {}

\* broadcastRoom: one client of the room is written to; a failed write closes
\* that client's connection and deletes it from the map
BroadcastWrite(c, d) ==
    /\ conn[c].pc = "broadcast"
    /\ d \in Pending(c)
    /\ IF connOpen[d]
       THEN /\ recvTrig' = IF conn[c].html.kind = "triggered"
                           THEN [recvTrig EXCEPT ![d] = @ + 1] ELSE recvTrig
            /\ castTrig' = IF conn[c].html.kind = "triggered"
                           THEN [castTrig EXCEPT ![d] = @ + 1] ELSE castTrig
            /\ clients' = clients
            /\ conn' = [conn EXCEPT ![c].todo = @ \ {d}]
            /\ fatal' = fatal
       ELSE /\ recvTrig' = recvTrig
            /\ castTrig' = castTrig
            /\ clients' = clients \ {d}
            /\ \E keep \in SUBSET Ranging(c) : conn' = Dropped(conn, d, keep)
            /\ MapRace(IF d \in clients THEN Ranging(c) ELSE {})
    /\ UNCHANGED <<rooms, connOpen>>
    /\ wire' = IF connOpen[d] THEN {Write(d, conn[c].roomID, conn[c].html.kind)} ELSE {}

\* broadcastRoom: the range is over, the handler goes on
BroadcastEnd(c) ==
    /\ conn[c].pc = "broadcast"
    /\ Pending(c) = {}
    /\ conn' = [conn EXCEPT ![c].pc = conn[c].back, ![c].html = NoHtml,
                            ![c].todo = {}, ![c].back = "none"]
    /\ UNCHANGED <<rooms, clients, connOpen, recvTrig, castTrig, fatal>>
    /\ wire' = {}

\* the receive loop: a vote message (HEADERS.HX-Request = "true"), room.Vote(pid)
ReadVote(c) ==
    /\ conn[c].pc = "loop" /\ connOpen[c]
    /\ LET r == rooms[conn[c].roomID] IN
          /\ rooms' = [rooms EXCEPT ![conn[c].roomID] = RoomVote(r, conn[c].pid)]
          /\ conn' = [conn EXCEPT ![c].pc =
                         IF RoomVoteCounted(r, conn[c].pid) THEN "check" ELSE "loop"]
    /\ UNCHANGED <<clients, connOpen, recvTrig, castTrig, fatal>>
    /\ wire' = {}

\* the receive loop: any other message, isVoteMessage is false
ReadOther(c) ==
    /\ conn[c].pc = "loop" /\ connOpen[c]
    /\ wire' = {}
    /\ UNCHANGED <<rooms, clients, conn, connOpen, recvTrig, castTrig, fatal>>

\* the inbound events: no HEADERS field, HEADERS that is not an object, an
\* object without HX-Request, and HX-Request as a string or as a boolean
Event(headers, key, type, value) ==
    [HEADERS |-> headers, key |-> key, type |-> type, value |-> value]
Msgs ==
    {Event("absent", FALSE, "none", "none"), Event("string", FALSE, "none", "none"),
     Event("object", FALSE, "none", "none"), Event("object", TRUE, "string", "true"),
     Event("object", TRUE, "string", "false"), Event("object", TRUE, "bool", "true")}

\* isVoteMessage: the type assertion of msg["HEADERS"], then the comparison of
\* the interface value with the string "true"
isVoteMessage_lax(msg) ==
    IF msg.HEADERS # "object" THEN FALSE ELSE msg.key /\ msg.value = "true"
isVoteMessage(msg) ==
    IF msg.HEADERS # "object" THEN FALSE
    ELSE msg.key /\ msg.type = "string" /\ msg.value = "true"

\* the receive loop: conn.ReadJSON(&msg) returns an event, and the branch on it
ReadJSON(c, msg) ==
    /\ heard' = {[by |-> c, msg |-> msg]}
    /\ IF isVoteMessage(msg) THEN ReadVote(c) ELSE ReadOther(c)

\* after a counted vote: room.CheckTrigger()
CheckTrigger(c) ==
    /\ conn[c].pc = "check"
    /\ LET r == rooms[conn[c].roomID] IN
          /\ rooms' = [rooms EXCEPT ![conn[c].roomID] = RoomCheckTrigger(r)]
          /\ IF RoomCheckTriggerReturn(r)
             THEN CallBroadcast(c, GenerateTriggeredHTML, "loop")
             ELSE conn' = [conn EXCEPT ![c].pc = "voteGauge"]
    /\ UNCHANGED <<clients, connOpen, recvTrig, castTrig, fatal>>
    /\ wire' = {}

\* the peer closes the connection
PeerClose(c) ==
    /\ conn[c].pc \notin {"new", "done"} /\ connOpen[c]
    /\ connOpen' = [connOpen EXCEPT ![c] = FALSE]
    /\ UNCHANGED <<rooms, clients, conn, recvTrig, castTrig, fatal>>
    /\ wire' = {}

\* the receive loop: ReadJSON returns an error (the connection is closed, or
\* the message is not JSON), break
ReadError(c) ==
    /\ conn[c].pc = "loop"
    /\ conn' = [conn EXCEPT ![c].pc = "leaveCheck"]
    /\ UNCHANGED <<rooms, clients, connOpen, recvTrig, castTrig, fatal>>
    /\ wire' = {}

\* if !room.IsTriggered, on disconnect
LeaveCheck(c) ==
    /\ conn[c].pc = "leaveCheck"
    /\ conn' = [conn EXCEPT ![c].pc =
                   IF rooms[conn[c].roomID].IsTriggered THEN "deferRemove" ELSE "leaveGauge"]
    /\ UNCHANGED <<rooms, clients, connOpen, recvTrig, castTrig, fatal>>
    /\ wire' = {}

\* the deferred calls, last first: room.RemoveParticipant(pid)
DeferRemove(c) ==
    /\ conn[c].pc = "deferRemove"
    /\ rooms' = [rooms EXCEPT ![conn[c].roomID] = RoomRemoveParticipant(@, conn[c].pid)]
    /\ conn' = [conn EXCEPT ![c].pc = "deferDelete"]
    /\ UNCHANGED <<clients, connOpen, recvTrig, castTrig, fatal>>
    /\ wire' = {}

\* delete(clients, client)
DeferDelete(c) ==
    /\ conn[c].pc = "deferDelete"
    /\ clients' = clients \ {c}
    /\ \E keep \in SUBSET Ranging(c) :
          conn' = [Dropped(conn, c, keep) EXCEPT ![c].pc = "deferClose"]
    /\ MapRace(IF c \in clients THEN Ranging(c) ELSE {})
    /\ UNCHANGED <<rooms, connOpen, recvTrig, castTrig>>
    /\ wire' = {}

\* conn.Close()
DeferClose(c) ==
    /\ conn[c].pc = "deferClose"
    /\ connOpen' = [connOpen EXCEPT ![c] = FALSE]
    /\ conn' = [conn EXCEPT ![c].pc = "done"]
    /\ UNCHANGED <<rooms, clients, recvTrig, castTrig, fatal>>
    /\ wire' = {}

ConnInit ==
    /\ rooms = <<>>
    /\ clients = {}
    /\ conn = [c \in Conns |-> NewConn]
    /\ connOpen = [c \in Conns |-> FALSE]
    /\ recvTrig = [c \in Conns |-> 0]
    /\ castTrig = [c \in Conns |-> 0]
    /\ fatal = FALSE
    /\ wire = {}
    /\ bus = {}
    /\ heard = {}
    /\ lazy = LazyIdle

\* a step of the handler of connection c, whose request names a room of rids
\* and a participant of pids
HandlerStep(c, rids, pids, msgs) ==
    \/ /\ heard' = {}
       /\ \/ \E roomID \in rids, pid \in pids : Connect(c, roomID, pid)
          \/ \E d \in Conns : BroadcastWrite(c, d)
          \/ Join(c)
          \/ JoinCheck(c)
          \/ Gauge(c)
          \/ JoinSend(c)
          \/ BroadcastEnd(c)
          \/ CheckTrigger(c)
          \/ PeerClose(c)
          \/ ReadError(c)
          \/ LeaveCheck(c)
          \/ DeferRemove(c)
          \/ DeferDelete(c)
          \/ DeferClose(c)
    \/ \E msg \in msgs : ReadJSON(c, msg)

\* the handler of c is past its receive loop: on the disconnect path of
\* handleConnections or in its deferred calls
Departing(c) ==
    \/ conn[c].pc \in {"leaveCheck", "leaveGauge", "deferRemove", "deferDelete", "deferClose"}
    \/ conn[c].pc = "broadcast" /\ conn[c].back = "deferRemove"

\* the handlers that run side by side
ConnStep == (\E c \in Busy : HandlerStep(c, RoomIds, Pids, Msgs)) /\ UNCHANGED <<bus, lazy>>

\* the steps of the handlers, as long as the process runs
ConnNext ==
    /\ ~fatal
    /\ ConnStep

\* ------------------------------------ pubsub.go: events across processes

MaxCast == 2

pubSubChannelPrefix == "room-broadcast:"

\* fmt.Sprintf("%s%s", pubSubChannelPrefix, mid)
Channel(mid) == [prefix |-> pubSubChannelPrefix, rest |-> mid]

\* the pattern fmt.Sprintf("%s*", pubSubChannelPrefix) of PSubscribe
Matches(channel) == channel.prefix = pubSubChannelPrefix

PubSubMessage(mid, event, html) == [RoomID |-> mid, Event |-> event, HTML |-> html]

\* json.Marshal and json.Unmarshal of a PubSubMessage, by its field tags
Marshal(msg) == [roomId |-> msg.RoomID, event |-> msg.Event, html |-> msg.HTML]
Unmarshal(data) == [RoomID |-> data.roomId, Event |-> data.event, HTML |-> data.html]

\* rdb.Publish(ctx, channel, data): the event is on its way to the subscriber
publish(mid, msg) ==
    /\ bus = {}
    /\ bus' = {[channel |-> Channel(mid), data |-> Marshal(msg)]}
    /\ wire' = {}
    /\ UNCHANGED <<rooms, clients, conn, connOpen, recvTrig, castTrig, fatal, heard, lazy>>

\* a handler of some process publishes the gauge of room mid, which
\* GenerateGaugeFromDB rendered from the counts total and votes
PublishRoomUpdate(mid, total, votes) ==
    publish(mid, PubSubMessage(mid, "update",
                               [kind |-> "update", total |-> total, votes |-> votes]))

\* a handler of some process publishes the ending screen of room mid
PublishRoomUpdateTriggered(mid) ==
    /\ \A d \in clients : recvTrig[d] < MaxCast
    /\ publish(mid, PubSubMessage(mid, "triggered", GenerateTriggeredHTML))

\* the registered connections broadcastLocalRoom writes html to
LocalRoom_all(roomID) == clients
LocalRoom(roomID) == {d \in clients : conn[d].roomID = roomID}

\* broadcastLocalRoom, under the read lock of the registry: a failed write
\* closes the connection, the registry is left as it is
broadcastLocalRoom(roomID, html, mid) ==
    LET got == {d \in LocalRoom(roomID) : connOpen[d]} IN
       /\ wire' = {Write(d, mid, html.kind) : d \in got}
       /\ recvTrig' = [d \in Conns |->
                         IF d \in got /\ html.kind = "triggered"
                         THEN recvTrig[d] + 1 ELSE recvTrig[d]]
       /\ UNCHANGED <<rooms, clients, conn, connOpen, castTrig, fatal, heard, lazy>>

\* ListenPubSub: one event of a channel of the pattern is received, decoded and
\* forwarded to the local connections of its room
ListenPubSub ==
    \E m \in bus :
       /\ Matches(m.channel)
       /\ bus' = bus \ {m}
       /\ LET psMsg == Unmarshal(m.data) IN
             broadcastLocalRoom(psMsg.RoomID, psMsg.HTML, m.channel.rest)

\* the events a process of the deployment may publish
Publish ==
    \/ \E mid \in RoomIds, total \in {1}, votes \in {0} : PublishRoomUpdate(mid, total, votes)
    \/ \E mid \in RoomIds : PublishRoomUpdateTriggered(mid)

\* ------------------------------------------ auth.go: VerifyZoomContext

\* the token of a request, by what each stage of VerifyZoomContext finds in it:
\* whether it is there at all, whether it decodes as base64url, the bytes it
\* decodes to, whether its tag verifies under the key (aesgcm.Open), whether
\* the plain text parses as JSON, and the string values of "uid" and "mid"
\* ("" when the field is absent or not a string)
NoToken ==
    [empty |-> TRUE, b64 |-> FALSE, b |-> <<>>, opens |-> FALSE, json |-> FALSE,
     uid |-> "", mid |-> ""]

\* the byte sequences of length n
BytesOfLen(n) == [1..n -> Bytes]

\* the byte sequences of length up to MaxLen
Payloads == UNION {BytesOfLen(n) : n \in 0..MaxLen}

\* binary.LittleEndian.Uint16(s)
Uint16(s) == s[1] + 256 * s[2]

\* binary.LittleEndian.Uint32(s)
Uint32(s) == s[1] + 256 * s[2] + 65536 * s[3] + 16777216 * s[4]

\* the length check passing one byte too early
TooShort_lax(b, need) == Len(b) + 1 < need

\* if len(b) < need
TooShort(b, need) == Len(b) < need

\* b[lo:hi] is within the bounds of b (it panics otherwise)
InRange(b, lo, hi) == lo <= hi /\ hi <= Len(b)

\* b[lo:hi]
Slice(b, lo, hi) == SubSeq(b, lo + 1, hi)

\* the locals of a call of VerifyZoomContext
IdleVZ ==
    [pc |-> "idle", tok |-> NoToken, b |-> <<>>, offset |-> 0,
     ivLength |-> 0, aadLength |-> 0, cipherTextLength |-> 0,
     iv |-> <<>>, aad |-> <<>>, cipherText |-> <<>>, authTag |-> <<>>,
     err |-> "", keyed |-> FALSE, hi |-> 0, UID |-> "", Mid |-> ""]

\* VerifyZoomContext(appContext) is called
CallVerify(tok) == [IdleVZ EXCEPT !.pc = "decode", !.tok = tok]

\* return nil, fmt.Errorf(msg)
Fail(v, msg) == [v EXCEPT !.pc = "err", !.err = msg]

\* x := b[offset : offset+n]; offset += n, the slice kept in field `what`, and
\* the call going on at `next`; a slice out of range panics
Cut(v, n, what, next) ==
    IF InRange(v.b, v.offset, v.offset + n)
    THEN [v EXCEPT ![what] = Slice(v.b, v.offset, v.offset + n),
                   !.offset = @ + n, !.hi = v.offset + n, !.pc = next]
    ELSE [v EXCEPT !.pc = "panic", !.hi = v.offset + n]

\* the empty check, and decodeBase64URL
VZ_decode ==
    /\ vz.pc = "decode"
    /\ vz' = IF vz.tok.empty THEN Fail(vz, "missing x-zoom-app-context header")
             ELSE IF ~vz.tok.b64 THEN Fail(vz, "base64 decode error")
             ELSE [vz EXCEPT !.b = vz.tok.b, !.pc = "ivLength"]

\* ivLength := int(b[offset])
VZ_ivLength ==
    /\ vz.pc = "ivLength"
    /\ vz' = IF TooShort(vz.b, 1) THEN Fail(vz, "too short")
             ELSE IF ~InRange(vz.b, 0, 1) THEN [vz EXCEPT !.pc = "panic", !.hi = 1]
             ELSE [vz EXCEPT !.ivLength = vz.b[1], !.offset = 1, !.hi = 1, !.pc = "iv"]

\* iv := b[offset : offset+ivLength]
VZ_iv ==
    /\ vz.pc = "iv"
    /\ vz' = IF TooShort(vz.b, vz.offset + vz.ivLength) THEN Fail(vz, "too short")
             ELSE Cut(vz, vz.ivLength, "iv", "aadLength")

\* aadLength := int(binary.LittleEndian.Uint16(b[offset : offset+2]))
VZ_aadLength ==
    /\ vz.pc = "aadLength"
    /\ vz' = IF TooShort(vz.b, vz.offset + 2) THEN Fail(vz, "too short")
             ELSE IF ~InRange(vz.b, vz.offset, vz.offset + 2)
             THEN [vz EXCEPT !.pc = "panic", !.hi = vz.offset + 2]
             ELSE [vz EXCEPT !.aadLength = Uint16(Slice(vz.b, vz.offset, vz.offset + 2)),
                             !.offset = @ + 2, !.hi = vz.offset + 2, !.pc = "aad"]

\* aad := b[offset : offset+aadLength]
VZ_aad ==
    /\ vz.pc = "aad"
    /\ vz' = IF TooShort(vz.b, vz.offset + vz.aadLength) THEN Fail(vz, "too short")
             ELSE Cut(vz, vz.aadLength, "aad", "cipherTextLength")

\* cipherTextLength := int(binary.LittleEndian.Uint32(b[offset : offset+4]))
VZ_cipherTextLength ==
    /\ vz.pc = "cipherTextLength"
    /\ vz' = IF TooShort(vz.b, vz.offset + 4) THEN Fail(vz, "too short")
             ELSE IF ~InRange(vz.b, vz.offset, vz.offset + 4)
             THEN [vz EXCEPT !.pc = "panic", !.hi = vz.offset + 4]
             ELSE [vz EXCEPT !.cipherTextLength =
                                 Uint32(Slice(vz.b, vz.offset, vz.offset + 4)),
                             !.offset = @ + 4, !.hi = vz.offset + 4, !.pc = "cipherText"]

\* cipherText := b[offset : offset+cipherTextLength]; authTag := b[offset:]
VZ_cipherText ==
    /\ vz.pc = "cipherText"
    /\ vz' = IF TooShort(vz.b, vz.offset + vz.cipherTextLength) THEN Fail(vz, "too short")
             ELSE LET v == Cut(vz, vz.cipherTextLength, "cipherText", "open") IN
                  IF v.pc = "panic" THEN v
                  ELSE [v EXCEPT !.authTag = Slice(v.b, v.offset, Len(v.b))]

\* sha256.Sum256, aes.NewCipher, cipher.NewGCMWithNonceSize (it refuses a nonce
\* of no length), aesgcm.Open (it refuses less than a tag, and a tag that does
\* not verify), json.Unmarshal, and the uid and mid of the payload
VZ_open ==
    /\ vz.pc = "open"
    /\ LET v == [vz EXCEPT !.keyed = TRUE] IN
       vz' = IF Len(v.iv) = 0 THEN Fail(v, "gcm")
             ELSE IF Len(v.cipherText) + Len(v.authTag) < GcmTagSize \/ ~v.tok.opens
             THEN Fail(v, "decrypt failed")
             ELSE IF ~v.tok.json THEN Fail(v, "json parse failed")
             ELSE IF v.tok.mid = "" \/ v.tok.uid = ""
             THEN Fail(v, "missing mid or uid in context payload")
             ELSE [v EXCEPT !.pc = "ok", !.UID = v.tok.uid, !.Mid = v.tok.mid]

\* a step of VerifyZoomContext
VerifyZoomContext ==
    /\ \/ VZ_decode
       \/ VZ_ivLength
       \/ VZ_iv
       \/ VZ_aadLength
       \/ VZ_aad
       \/ VZ_cipherTextLength
       \/ VZ_cipherText
       \/ VZ_open
    /\ UNCHANGED <<env, req, hs>>

\* ------------------------------------------------ auth.go: AuthMiddleware

\* the values of a query parameter, and of the uid and mid of a payload
Ids == {"", "id"}

\* the values of the DEV_BYPASS variable of the process ("" when unset)
EnvValues == {"", "true", " true ", "false"}

\* strings.TrimSpace, on the values of the variable
TrimSpace(s) == IF s = " true " THEN "true" ELSE s

\* the routes: /ws of main.go, given handleConnections as it is; /api/state
\* and /api/vote, given their handlers wrapped in AuthMiddleware
Paths == {"/ws", "/api/state", "/api/vote"}

\* a token whose bytes are too short for the framing, and one that is framed:
\* an iv of 1 byte, no aad, a cipher text of 1 byte, a tag of 16
ShortBytes == <<1, 0, 0, 0>>
FramedBytes == <<1, 0, 0, 0, 1, 0, 0, 0, 0>> \o [i \in 1..GcmTagSize |-> 0]

\* the tokens a request may carry
Tokens ==
    {NoToken,
     [NoToken EXCEPT !.empty = FALSE],
     [NoToken EXCEPT !.empty = FALSE, !.b64 = TRUE, !.b = ShortBytes],
     [NoToken EXCEPT !.empty = FALSE, !.b64 = TRUE, !.b = FramedBytes],
     [NoToken EXCEPT !.empty = FALSE, !.b64 = TRUE, !.b = FramedBytes, !.opens = TRUE]}
    \cup {[empty |-> FALSE, b64 |-> TRUE, b |-> FramedBytes, opens |-> TRUE,
           json |-> TRUE, uid |-> u, mid |-> m] : u \in Ids, m \in Ids}

\* a request: its path, its x-zoom-app-context header, and its zoom_context,
\* roomId and pid query parameters
Requests ==
    [path : Paths, header : Tokens, zoom_context : Tokens, roomId : Ids, pid : Ids]

NoRequest ==
    [path |-> "/ws", header |-> NoToken, zoom_context |-> NoToken,
     roomId |-> "", pid |-> ""]

\* the serving of a request: where it is, the zoomCtx attached to it (set, Mid,
\* UID), the status written, and what has happened on the way: the token was
\* verified, the wrapped handler was invoked by AuthMiddleware, a handler has
\* read or changed the state of room `room` for participant `pid`
IdleServe ==
    [pc |-> "idle", set |-> FALSE, Mid |-> "", UID |-> "", status |-> 0,
     verified |-> FALSE, invoked |-> FALSE, touched |-> FALSE,
     room |-> "", pid |-> ""]

\* a request comes in
Arrive(r) ==
    /\ hs.pc = "idle"
    /\ req' = r
    /\ hs' = [IdleServe EXCEPT !.pc = "route"]
    /\ UNCHANGED <<env, vz>>

\* main: http.HandleFunc("/ws", handleConnections), and the wrapped routes
Route ==
    /\ hs.pc = "route"
    /\ hs' = [hs EXCEPT !.pc = IF req.path = "/ws" THEN "handleConnections"
                                ELSE "AuthMiddleware"]
    /\ UNCHANGED <<env, req, vz>>

\* appContext: the header, or the query parameter when the header is empty
AppContext(r) == IF r.header.empty THEN r.zoom_context ELSE r.header

\* AuthMiddleware, up to the call of VerifyZoomContext
AuthMiddleware_enter ==
    /\ hs.pc = "AuthMiddleware"
    /\ IF TrimSpace(env) = "true"
       THEN /\ hs' = [hs EXCEPT !.pc = "next", !.set = TRUE, !.Mid = req.roomId,
                                !.UID = req.pid, !.invoked = TRUE]
            /\ vz' = vz
       ELSE IF AppContext(req).empty
       THEN /\ hs' = [hs EXCEPT !.pc = "done", !.status = 401]
            /\ vz' = vz
       ELSE /\ hs' = [hs EXCEPT !.pc = "verify"]
            /\ vz' = CallVerify(AppContext(req))
    /\ UNCHANGED <<env, req>>

\* AuthMiddleware, from the return of VerifyZoomContext
AuthMiddleware_verified ==
    /\ hs.pc = "verify"
    /\ vz.pc \in {"ok", "err"}
    /\ hs' = IF vz.pc = "err"
             THEN [hs EXCEPT !.pc = "done", !.status = 401]
             ELSE [hs EXCEPT !.pc = "next", !.set = TRUE, !.Mid = vz.Mid,
                             !.UID = vz.UID, !.verified = TRUE, !.invoked = TRUE]
    /\ vz' = IdleVZ
    /\ UNCHANGED <<env, req>>

\* handleConnections of main.go, up to the registration of the client and
\* room.AddParticipant(pid): roomId and pid are the query parameters
handleConnections ==
    /\ hs.pc = "handleConnections"
    /\ hs' = IF req.roomId = "" \/ req.pid = ""
             THEN [hs EXCEPT !.pc = "done", !.status = 400]
             ELSE [hs EXCEPT !.pc = "done", !.status = 101, !.touched = TRUE,
                             !.room = req.roomId, !.pid = req.pid]
    /\ UNCHANGED <<env, req, vz>>

\* handleGetState and handleVote: the zoomCtx of the request, then
\* addParticipant(ctx, zCtx.Mid, zCtx.UID) or addVote(ctx, zCtx.Mid, zCtx.UID)
handleWrapped ==
    /\ hs.pc = "next"
    /\ hs' = IF ~hs.set
             THEN [hs EXCEPT !.pc = "done", !.status = 401]
             ELSE [hs EXCEPT !.pc = "done", !.status = 200, !.touched = TRUE,
                             !.room = hs.Mid, !.pid = hs.UID]
    /\ UNCHANGED <<env, req, vz>>

\* the response is out
Served ==
    /\ hs.pc = "done"
    /\ hs' = IdleServe
    /\ req' = NoRequest
    /\ UNCHANGED <<env, vz>>

AuthIdle ==
    /\ env = ""
    /\ req = NoRequest
    /\ hs = IdleServe
    /\ vz = IdleVZ

\* the process is started with a value of DEV_BYPASS, or with none
AuthInit ==
    /\ env \in EnvValues
    /\ req = NoRequest
    /\ hs = IdleServe
    /\ vz = IdleVZ

AuthNext ==
    \/ \E r \in Requests : Arrive(r)
    \/ Route
    \/ AuthMiddleware_enter
    \/ AuthMiddleware_verified
    \/ handleConnections
    \/ handleWrapped
    \/ Served
    \/ hs.pc = "verify" /\ VerifyZoomContext

\* VerifyZoomContext called on a token that decodes to the bytes b
FrameInit ==
    /\ env = ""
    /\ req = NoRequest
    /\ hs = IdleServe
    /\ \E b \in Payloads :
          vz = CallVerify([empty |-> FALSE, b64 |-> TRUE, b |-> b, opens |-> TRUE,
                           json |-> TRUE, uid |-> "id", mid |-> "id"])

\* ------------------------------------------------------- specifications

vars == <<storeVars, evalVars, connVars, authVars>>

Init == StoreStart /\ faults = TRUE /\ BootEither /\ EvalIdle /\ ConnInit /\ AuthIdle

Next == StoreNext /\ UNCHANGED <<evalVars, connVars, authVars>>

\* the room store under concurrent callers, both backends, no passing of time
Spec == Init /\ [][Next]_vars

NextTTL ==
    /\ \/ Resume
       \/ ret.op = "none" /\ (initRedis \/ StoreStep(1) \/ Tick)
    /\ UNCHANGED <<evalVars, connVars, authVars>>

\* the room store under one caller, with the passing of time and the expiry of
\* the shared backend's keys
SpecTTL == Init /\ [][NextTTL]_vars

InitEval == StoreInit /\ EvalInit /\ ConnInit /\ AuthIdle

NextEval == Evaluate /\ UNCHANGED <<storeVars, connVars, authVars>>

\* the trigger rule applied to every pair of counts within MaxCount
SpecEval == InitEval /\ [][NextEval]_vars

InitConn == StoreInit /\ EvalIdle /\ ConnInit /\ AuthIdle

NextConn == ConnNext /\ UNCHANGED <<storeVars, evalVars, authVars>>

\* the WebSocket server of main.go over the rooms of state.go
SpecConn == InitConn /\ [][NextConn]_vars

\* the handler of c is between two requests of its peer: not yet connected, in
\* ReadJSON, or returned
AtRest(c) == conn[c].pc \in {"new", "loop", "done"}

NextQueue ==
    /\ ~fatal
    /\ \E c \in Conns :
          /\ \A d \in Conns \ {c} : AtRest(d)
          /\ HandlerStep(c, RoomIds, {c}, Msgs)
    /\ UNCHANGED <<bus, lazy>>
    /\ UNCHANGED <<storeVars, evalVars, authVars>>

\* the WebSocket server with every connection its own participant, the
\* handlers taking their steps one request at a time
SpecQueue == InitConn /\ [][NextQueue]_vars

NextBus ==
    /\ ~fatal
    /\ \/ /\ \E c \in Busy : (\A d \in Conns \ {c} : AtRest(d)) /\ HandlerStep(c, RoomIds, {1}, Msgs)
          /\ UNCHANGED <<bus, lazy>>
       \/ Publish
       \/ ListenPubSub
    /\ UNCHANGED <<storeVars, evalVars, authVars>>

\* the handlers of main.go, one request at a time, beside the subscriber of
\* pubsub.go, in one process of a deployment whose processes publish events
SpecBus == InitConn /\ [][NextBus]_vars

NextLazy == LazyNext /\ UNCHANGED <<storeVars, evalVars, authVars>>

\* getRoom and getMemRoom called side by side for the same and for other ids
SpecLazy == InitConn /\ [][NextLazy]_vars

InitSure == StoreStart /\ faults = FALSE /\ BootEither /\ EvalIdle /\ ConnInit /\ AuthIdle

\* the room store under concurrent callers, while no command of the shared
\* backend fails
SpecSure == InitSure /\ [][Next]_vars

NextSeq ==
    /\ \/ Resume
       \/ /\ ret.op = "none"
          /\ \/ initRedis
             \/ Tick /\ \A q \in Procs : proc[q].pc = "idle"
             \/ \E p \in Procs :
                   StoreStep(p) /\ \A q \in Procs \ {p} : proc[q].pc = "idle"
    /\ UNCHANGED <<evalVars, connVars, authVars>>

\* the room store under two callers whose calls do not overlap, with the
\* passing of time between the calls, while no command fails
SpecSeq == InitSure /\ [][NextSeq]_vars

\* the same calls made one after the other on a process of the in-memory
\* build and on a process of the shared build, no command failing: useRedis
\* is the build that takes the step
PairInit ==
    /\ started = TRUE /\ useRedis = FALSE /\ rdb = "client"
    /\ memRooms = <<>>
    /\ partKey = [mid \in Rooms |-> {}]
    /\ voteKey = [mid \in Rooms |-> {}]
    /\ trigKey = [mid \in Rooms |-> ""]
    /\ ttl = [mid \in Rooms |-> [k \in KeyKinds |-> 0]]
    /\ proc = [p \in Procs |-> IdleProc]
    /\ ret = IdleProc
    /\ reported = {}
    /\ counted = [mid \in Rooms |-> [uid \in Pids |-> 0]]
    /\ idle = 0
    /\ faults = FALSE
    /\ redisURL = "redis://h" /\ redisUp = TRUE
    /\ twin = IdleProc

\* the call is made on the in-memory build
PairMem ==
    /\ ~useRedis /\ ret.op = "none"
    /\ \/ \E mid \in Rooms, uid \in Pids :
             \/ AddParticipant_mem(1, mid, uid)
             \/ RemoveParticipant_mem(1, mid, uid)
             \/ Vote_mem(1, mid, uid)
       \/ \E mid \in Rooms : CheckTriggerStatus_mem(1, mid)

\* its result is kept, and the shared build takes over
PairSwitch ==
    /\ ~useRedis /\ ret.op # "none"
    /\ twin' = ret /\ ret' = IdleProc /\ useRedis' = TRUE
    /\ UNCHANGED <<started, rdb, memRooms, partKey, voteKey, trigKey, ttl, proc,
                   reported, counted, idle, faults, redisURL,
                   redisUp>>

\* the same call is made on the shared build
PairRedis ==
    /\ useRedis /\ ret.op = "none"
    /\ \/ twin.op = "AddParticipant" /\ AddParticipant_sadd(1, twin.mid, twin.uid)
       \/ AddParticipant_expire(1)
       \/ twin.op = "RemoveParticipant" /\ RemoveParticipant_srem(1, twin.mid, twin.uid)
       \/ twin.op = "Vote" /\ Vote_get(1, twin.mid, twin.uid)
       \/ Vote_sadd(1)
       \/ Vote_expire(1)
       \/ twin.op = "CheckTriggerStatus" /\ CheckTriggerStatus_read(1, twin.mid)
       \/ CheckTriggerStatus_set(1)

\* both results are in: on to the next call
PairDone ==
    /\ useRedis /\ ret.op # "none"
    /\ twin' = IdleProc /\ ret' = IdleProc /\ useRedis' = FALSE
    /\ UNCHANGED <<started, rdb, memRooms, partKey, voteKey, trigKey, ttl, proc,
                   reported, counted, idle, faults, redisURL,
                   redisUp>>

InitBoot ==
    /\ StoreStart /\ faults = FALSE
    /\ redisURL \in URLs /\ redisUp \in BOOLEAN
    /\ EvalIdle /\ ConnInit /\ AuthIdle

\* the room store from the startup of a process, whatever REDIS_URL is and
\* whether or not the backend answers
SpecBoot == InitBoot /\ [][Next]_vars

InitPair == PairInit /\ EvalIdle /\ ConnInit /\ AuthIdle

NextPair ==
    (PairMem \/ PairSwitch \/ PairRedis \/ PairDone) /\ UNCHANGED <<evalVars, connVars, authVars>>

SpecPair == InitPair /\ [][NextPair]_vars

InitAuth == StoreInit /\ EvalIdle /\ ConnInit /\ AuthInit

NextAuth == AuthNext /\ UNCHANGED <<storeVars, evalVars, connVars>>

\* the serving of requests: the routes, AuthMiddleware, VerifyZoomContext
SpecAuth == InitAuth /\ [][NextAuth]_vars

InitFrame == StoreInit /\ EvalIdle /\ ConnInit /\ FrameInit

NextFrame == VerifyZoomContext /\ UNCHANGED <<storeVars, evalVars, connVars>>

\* VerifyZoomContext on every byte sequence of up to MaxLen bytes
SpecFrame == InitFrame /\ [][NextFrame]_vars

\* ------------------------------------------------------------ properties

\* C1: the vote messages of a room make broadcastRoom write the 'triggered'
\* payload to a connection at most once, however the Vote and CheckTrigger
\* steps of the voting connections interleave
C1_TriggeredOnce == \A c \in Conns : castTrig[c] <= 1

\* C2: in both backends no step of any store operation, whatever the other
\* caller is doing, takes the triggered flag of a room from true to false
C2_TriggeredMonotonic ==
    [][\A mid \in Rooms : View(mid).Triggered => ViewNext(mid).Triggered]_vars

\* a CheckTriggerStatus started on a room reported triggered returns true on
\* a room that has lost all its participants, while the other caller is
\* inside a call of its own
C2_TriggeredKept ==
    /\ ret.op = "CheckTriggerStatus" /\ ret.after /\ ret.val
    /\ View(ret.mid).Triggered
    /\ View(ret.mid).Participants = {}
    /\ \E p \in Procs : proc[p].pc # "idle"

\* C3: once a CheckTriggerStatus has reported triggered = true for a room, a
\* Vote started afterwards returns "not counted" and adds no voter, and a
\* CheckTriggerStatus started afterwards returns triggered = true
C3_FrozenAfterReport ==
    /\ (ret.op = "Vote" /\ ret.after => ~ret.val /\ ret.added = 0)
    /\ (ret.op = "CheckTriggerStatus" /\ ret.after => ret.val)

\* C4: the decision of both evaluations is the rule: true if already
\* triggered, else true exactly when total > 0, votes > 0 and votes is at
\* least half of total rounded up
C4_TriggerRule ==
    evPc = "out" =>
       LET rule == evAlready
                   \/ (evTotal > 0 /\ evVotes > 0 /\ 2 * evVotes >= evTotal) IN
          evRoom = rule /\ evStore = rule

\* the rule decides an odd total at exactly its rounded-up half
C4_OddTotalMet ==
    evPc = "out" /\ ~evAlready /\ evTotal = 3 /\ evVotes = 2 /\ evRoom /\ evStore

\* C5: a Vote by an id whose Vote was already counted returns "not counted"
\* and adds no voter, and no id has more than one Vote counted
C5_VoteCountedOnce ==
    /\ \A mid \in Rooms, uid \in Pids : counted[mid][uid] <= 1
    /\ (ret.op = "Vote" /\ ret.had => ~ret.val /\ ret.added = 0 /\ ~ret.dirty)

\* a second Vote of an id returns "not counted" in a room not yet triggered
C5_DuplicateRejected ==
    /\ ret.op = "Vote" /\ ret.had /\ ~ret.val
    /\ ~View(ret.mid).Triggered
    /\ ret.uid \in View(ret.mid).Votes

\* C6: a Vote that returns false has changed nothing of the room: neither
\* the sets, nor the flag, nor an expiry
C6_RejectedVoteInert ==
    ret.op = "Vote" /\ ~ret.val => ~ret.dirty /\ ~ret.timed

\* C7: an AddParticipant of an id already in the participant set leaves the
\* sets and the flag as they were, and returns no error unless the backend
\* failed its command
C7_AddIdempotent ==
    ret.op = "AddParticipant" /\ ret.had =>
       /\ ~ret.dirty
       /\ (~ret.fault => ~ret.err)

\* an id is added again, without error, to a room that holds another id too
C7_AddedAgain ==
    /\ ret.op = "AddParticipant" /\ ret.had /\ ~ret.err
    /\ Cardinality(View(ret.mid).Participants) = 2

\* C8: a RemoveParticipant of an id that is not in the participant set
\* leaves the sets and the flag as they were, and returns no error unless
\* the backend failed its command
C8_RemoveIdempotent ==
    ret.op = "RemoveParticipant" /\ ~ret.had =>
       /\ ~ret.dirty
       /\ (~ret.fault => ~ret.err)

\* an absent id is removed, without error, from a room that holds another id
C8_RemovedAbsent ==
    /\ ret.op = "RemoveParticipant" /\ ~ret.had /\ ~ret.err
    /\ View(ret.mid).Participants # {}

\* C9: no step of a store operation takes an id out of the voter set, and a
\* RemoveParticipant leaves the voter set and the triggered flag as they were
C9_VotesKept ==
    [][\A mid \in Rooms :
          /\ View(mid).Votes \subseteq ViewNext(mid).Votes
          /\ (ret'.op = "RemoveParticipant" /\ ret'.mid = mid =>
                 /\ ViewNext(mid).Votes = View(mid).Votes
                 /\ ViewNext(mid).Triggered = View(mid).Triggered)]_vars

\* a participant that voted has been removed: its vote stays, of an id that
\* is no participant
C9_VoterNotParticipant ==
    /\ ret.op = "RemoveParticipant" /\ ret.had /\ ~ret.err
    /\ ret.uid \in View(ret.mid).Votes
    /\ ret.uid \notin View(ret.mid).Participants

\* C10: when a CheckTriggerStatus returns triggered = true the room is
\* stored as triggered
C10_ReportedIsStored ==
    ret.op = "CheckTriggerStatus" /\ ret.val => View(ret.mid).Triggered

\* C11: in the shared backend, when an AddParticipant, a RemoveParticipant, a
\* counted Vote or a CheckTriggerStatus that wrote the marker has returned
\* with none of its commands failed, every key of the room that exists has
\* the full roomTTL left
C11_SharedWindow ==
    LET mutated == \/ ret.op \in {"AddParticipant", "RemoveParticipant"}
                   \/ ret.op = "Vote" /\ ret.val
                   \/ ret.op = "CheckTriggerStatus" /\ ret.dirty IN
       (useRedis /\ mutated /\ ~ret.err /\ ~ret.fault)
          => \A k \in KeyKinds : KeyExists(ret.mid, k) => ttl[ret.mid][k] = roomTTL

C13_SameTriple ==
    (useRedis /\ ret.op = "CheckTriggerStatus")
       => /\ ret.total = Cardinality(partKey[ret.mid])
          /\ ret.votes = Cardinality(voteKey[ret.mid])
          /\ ret.val = (trigKey[ret.mid] = "1")

\* a CheckTriggerStatus returns a triggered room of two participants whose
\* marker an earlier call wrote
C13_ReadsWhatWasWritten ==
    /\ useRedis /\ ret.op = "CheckTriggerStatus" /\ ret.after /\ ~ret.dirty
    /\ ret.val /\ ret.total = 2 /\ ret.votes >= 1

\* C14: a call made on the shared build returns what the same call returned
\* on the in-memory build after the same calls, and leaves the same
\* participant set, voter set and flag
C14_SameAsInMemory ==
    (useRedis /\ ret.op # "none")
       => /\ ret.op = twin.op /\ ret.mid = twin.mid /\ ret.uid = twin.uid
          /\ ret.val = twin.val /\ ret.err = twin.err
          /\ ret.total = twin.total /\ ret.votes = twin.votes
          /\ ViewOf(TRUE, memRooms, partKey, voteKey, trigKey, ret.mid)
                = ViewOf(FALSE, memRooms, partKey, voteKey, trigKey, ret.mid)

\* a first Vote of an id is turned down by both builds in a triggered room
C14_BothRejectAfterTrigger ==
    /\ useRedis /\ ret.op = "Vote" /\ twin.op = "Vote" /\ ~ret.val /\ ~twin.val
    /\ trigKey[ret.mid] = "1"
    /\ ret.uid \notin voteKey[ret.mid]

\* C19: in the shared backend, once the marker of a room is written no step
\* puts an id into the voter set of the room
C19_NoInsertAfterMarker ==
    [][\A mid \in Rooms :
          (useRedis /\ trigKey[mid] = "1") => voteKey'[mid] \subseteq voteKey[mid]]_vars

\* C15: the clients map is never written while a broadcastRoom of another
\* handler ranges over it: a handler that registers its client (join),
\* unregisters it (disconnect), or deletes a client after a failed write, does
\* so while no other handler is inside its range, and the runtime never finds
\* the map accessed concurrently.
C15_RegistryUnderLock ==
    [][LET ranging == {b \in Conns : conn[b].pc = "broadcast"}
           \* the write is the delete after a failed write of a range (no
           \* handler moves on), or the register or unregister of a handler
           \* that is outside one
           inRange == \A c \in Conns : conn'[c].pc = conn[c].pc IN
          /\ ~fatal'
          /\ clients' # clients =>
                Cardinality(ranging) <= (IF inRange THEN 1 ELSE 0)]_vars

\* C20: while the handler of a disconnected connection renders and broadcasts
\* the update of a room that is not triggered, its participant is already out
\* of the room and its client out of the clients map (so the update counts the
\* participants that remain and is not written to the departing connection).
C20_LeftBeforeUpdate ==
    \A c \in Conns :
       (conn[c].pc = "broadcast" /\ conn[c].back = "deferRemove")
          => /\ c \notin clients
             /\ c \notin conn[c].todo
             /\ conn[c].pid \notin rooms[conn[c].roomID].Participants
             /\ conn[c].html.total = Cardinality(rooms[conn[c].roomID].Participants)

\* C16: a handler reads or changes room state for a request only if the
\* request's token was verified by VerifyZoomContext or the bypass is switched
\* on by DEV_BYPASS; and with the bypass off, a request whose token is missing
\* or does not verify is answered 401 without a handler being invoked.
C16_HandlerBehindAuth ==
    LET bypass == TrimSpace(env) = "true" IN
       /\ hs.touched => (hs.verified \/ bypass)
       /\ (hs.pc = "done" /\ ~bypass /\ ~hs.verified)
             => (hs.status = 401 /\ ~hs.invoked /\ ~hs.touched)

\* C17: whenever AuthMiddleware invokes the wrapped handler, after a
\* successful decode or in bypass mode, the zoomCtx it has attached to the
\* request has a room id and a participant id that are both non-empty.
C17_IdentityResolved ==
    hs.invoked => (hs.set /\ hs.Mid # "" /\ hs.UID # "")

\* C18: VerifyZoomContext never slices beyond len(b); when b is shorter than
\* 1 + ivLength + 2 + aadLength + 4 + cipherTextLength, the lengths being the
\* byte, the little-endian 16-bit and the little-endian 32-bit prefixes of b
\* itself, the call fails with 'too short' before the key is derived; and
\* otherwise iv, aad, cipherText and authTag are the consecutive segments of b
\* those lengths mark out, the tag being all that is left.
C18_FramingChecked ==
    LET b == vz.b
        Framed(i, a, c) ==
            /\ Len(b) >= 1 + i + 2 + a + 4 + c
            /\ b[1] = i
            /\ b[2 + i] + 256 * b[3 + i] = a
            /\ b[4 + i + a] + 256 * b[5 + i + a] + 65536 * b[6 + i + a]
                  + 16777216 * b[7 + i + a] = c
        Segments(i, a, c) ==
            /\ vz.iv = SubSeq(b, 2, 1 + i)
            /\ vz.aad = SubSeq(b, 4 + i, 3 + i + a)
            /\ vz.cipherText = SubSeq(b, 8 + i + a, 7 + i + a + c)
            /\ vz.authTag = SubSeq(b, 8 + i + a + c, Len(b))
            /\ <<i>> \o vz.iv \o SubSeq(b, 2 + i, 3 + i) \o vz.aad
                  \o SubSeq(b, 4 + i + a, 7 + i + a) \o vz.cipherText \o vz.authTag = b
        framed == \E i \in 0..Len(b), a \in 0..Len(b), c \in 0..Len(b) : Framed(i, a, c)
        framing == vz.pc \in {"open", "ok"} \/ (vz.pc = "err" /\ (vz.keyed \/ vz.err = "too short")) IN
       /\ vz.pc # "panic"
       /\ vz.hi <= Len(b)
       /\ framing =>
             IF framed
             THEN /\ vz.pc = "err" => vz.keyed
                  /\ \E i \in 0..Len(b), a \in 0..Len(b), c \in 0..Len(b) :
                        Framed(i, a, c) /\ Segments(i, a, c)
             ELSE vz.pc = "err" /\ vz.err = "too short" /\ ~vz.keyed

\* C18: a sequence that is framed, with an iv and a tag that are not empty,
\* has been cut up and is about to be opened
C18_FramedAndCut ==
    /\ vz.pc = "open"
    /\ Len(vz.iv) >= 1
    /\ Len(vz.authTag) >= 1
    /\ Len(vz.b) = 7 + Len(vz.iv) + Len(vz.aad) + Len(vz.cipherText) + Len(vz.authTag)

\* C21: a room whose counts meet the rule after a participant has left
\* (total > 0, votes > 0, votes >= ceil(total/2)) becomes triggered with no
\* further vote: once the handlers have nothing left to do, no room that is
\* not triggered has counts that meet the rule.
C21_LeaveReevaluates ==
    (~fatal /\ \A c \in Conns : AtRest(c)) =>
       \A id \in DOMAIN rooms :
          LET total == Cardinality(rooms[id].Participants)
              votes == Cardinality(rooms[id].VotedUsers) IN
             (total > 0 /\ votes > 0 /\ votes >= Threshold(total))
                => rooms[id].IsTriggered

\* C22: an operation of the shared backend during which a command fails is a
\* no-op: a Vote whose GET of the marker or whose SADD fails returns 'not
\* counted' and leaves the sets and the flag of the room as they were, and so
\* does an AddParticipant that returns an error.
C22_FailedCallIsNoOp ==
    (useRedis /\ ret.op \in {"Vote", "AddParticipant"} /\ (ret.err \/ ret.fault))
       => (~ret.val /\ ~ret.dirty)

\* C23: initRedis can always run to its end, whatever REDIS_URL is and whether
\* or not the backend answers; after it the shared backend is selected
\* (useRedis, with a client) exactly when REDIS_URL is set, is a Redis URL and
\* the PING succeeded, and otherwise the in-memory one (no client); and no
\* later step changes the selection.
C23_BackendChosenOnce ==
    /\ [](~started => ENABLED initRedis)
    /\ [][/\ started' =>
               IF redisURL' \notin {"", "http://h"} /\ redisUp'
               THEN useRedis' /\ rdb' = "client"
               ELSE ~useRedis' /\ rdb' = "nil"
          /\ started => (started' /\ useRedis' = useRedis /\ rdb' = rdb)]_vars

\* C23: a process whose REDIS_URL names a backend that did not answer has
\* served a call from memory
C23_DegradedToMemory ==
    /\ started /\ redisURL = "redis://h" /\ ~redisUp
    /\ ~useRedis /\ rdb = "nil"
    /\ ret.op = "Vote" /\ ret.val

\* C24: broadcasts are isolated per room: a payload rendered for room R, by a
\* handler's broadcastRoom or by the subscriber's broadcastLocalRoom of a
\* published event, is written only to connections registered with room id R,
\* and a room's participant set, voter set and triggered flag are changed only
\* by a step of a handler whose connection is of that room.
C24_RoomIsolation ==
    [][/\ \A w \in wire' : conn'[w.to].roomID = w.room
       /\ \A id \in DOMAIN rooms' :
             (id \notin DOMAIN rooms \/ rooms'[id] # rooms[id]) =>
                \E c \in Conns : conn[c].pc # conn'[c].pc /\ conn[c].roomID = id]_vars

\* C24 witness: a 'triggered' payload is written in one room while a connection
\* of another room is registered, open and waiting, and has received none.
C24_OtherRoomSilent ==
    \E w \in wire, d \in clients :
       /\ w.kind = "triggered"
       /\ conn[d].roomID # w.room
       /\ conn[d].pc = "loop" /\ connOpen[d] /\ recvTrig[d] = 0

\* C25: an inbound event that is not the cast-vote signal (no HEADERS object,
\* or HX-Request not the string "true") is ignored without error: the rooms are
\* unchanged, nothing is written or broadcast, the connection stays registered,
\* open and in its receive loop; and a vote that is not counted starts no
\* broadcast either.
C25_OtherEventsIgnored ==
    [][\A h \in heard' :
          LET c == h.by
              castVote == /\ h.msg.HEADERS = "object" /\ h.msg.key
                          /\ h.msg.type = "string" /\ h.msg.value = "true"
              tallied == castVote /\ RoomVoteCounted(rooms[conn[c].roomID], conn[c].pid)
          IN /\ ~castVote => rooms' = rooms
             /\ ~tallied => /\ conn'[c] = conn[c] /\ conn'[c].pc = "loop"
                            /\ wire' = {}
                            /\ clients' = clients /\ connOpen' = connOpen
                            /\ ~fatal']_vars

\* C25 witness: a handler whose room has a participant and no voter has just
\* read an event whose HX-Request is the boolean true, and is in its loop.
C25_BooleanHeaderRead ==
    \E h \in heard :
       /\ h.msg.HEADERS = "object" /\ h.msg.key /\ h.msg.type = "bool"
       /\ conn[h.by].pc = "loop" /\ connOpen[h.by]
       /\ rooms[conn[h.by].roomID].Participants # {}
       /\ rooms[conn[h.by].roomID].VotedUsers = {}

\* C26: a malformed inbound event on a connection closes and unregisters only
\* that connection: while its handler leaves the loop, broadcasts and runs its
\* deferred calls, the process keeps running, every other connection that is
\* registered and open (and not itself departing) stays registered and open, no
\* room's voter set or triggered flag changes, and the handler ends with its
\* connection unregistered and closed.
C26_FailureIsLocal ==
    [][\A c \in Conns :
          (conn'[c] # conn[c] /\ (Departing(c) \/ conn'[c].pc = "leaveCheck")) =>
             /\ ~fatal'
             /\ \A d \in Conns \ {c} :
                   (d \in clients /\ connOpen[d] /\ ~Departing(d)) =>
                      (d \in clients' /\ connOpen'[d])
             /\ \A id \in DOMAIN rooms :
                   /\ rooms'[id].VotedUsers = rooms[id].VotedUsers
                   /\ rooms'[id].IsTriggered = rooms[id].IsTriggered
             /\ conn'[c].pc = "done" => (c \notin clients' /\ ~connOpen'[c])]_vars

\* C27: the state endpoint applies the majority rule of the store: for every
\* participant count, vote count and stored flag, handleGetState reports
\* triggered, and leaves the flag stored, exactly when participants > 0,
\* votes > 0 and votes >= ceil(participants / 2), or the room was already
\* triggered.
C27_StateEndpointRule ==
    evPc = "out" =>
       LET rule == evAlready
                   \/ (evTotal > 0 /\ evVotes > 0 /\ evVotes >= Threshold(evTotal)) IN
          evHttp.triggered = rule /\ evHttp.flag = rule

C29_SetByEvaluationOnly ==
    [][\A mid \in Rooms :
          /\ (~View(mid).Triggered /\ ViewNext(mid).Triggered) =>
                /\ ret'.op = "CheckTriggerStatus" /\ ret'.mid = mid /\ ret'.val
                /\ ret'.total > 0 /\ ret'.votes > 0 /\ 2 * ret'.votes >= ret'.total
          /\ (\E p \in Procs :
                 proc'[p] # proc[p]
                 /\ {proc[p].op, proc'[p].op, ret'.op} \cap
                       {"AddParticipant", "RemoveParticipant", "Vote"} # {}) =>
                ViewNext(mid).Triggered = View(mid).Triggered]_vars

\* C29 witness: in the shared backend a CheckTriggerStatus that read one vote of
\* two participants has set the flag and returned.
C29_FlagSetOnMajority ==
    /\ useRedis /\ ret.op = "CheckTriggerStatus" /\ ret.val /\ ret.dirty
    /\ ret.total = 2 /\ ret.votes = 1
    /\ trigKey[ret.mid] = "1"

\* C30: whatever the interleaving of the handlers of a room, a connection that
\* has been sent the 'triggered' payload is never afterwards sent a gauge
\* 'update' payload or an empty payload.
C30_NothingAfterTriggered ==
    \A w \in wire : w.kind \in {"update", "empty"} => recvTrig[w.to] = 0

\* C31: whenever no handler is inside its join or disconnect steps, the
\* participant set of each room is the set of the participant ids of the
\* connections of that room whose handler is in its receive loop, also when
\* two connections of a room carry one participant id and one of them closes.
C31_ParticipantsAreConnected ==
    (~fatal /\ \A c \in Conns : AtRest(c)) =>
       \A id \in RoomIds :
          (IF id \in DOMAIN rooms THEN rooms[id].Participants ELSE {})
             = {conn[c].pid : c \in {d \in Conns : conn[d].pc = "loop" /\ conn[d].roomID = id}}

====
